---- MODULE Spec2Model ----
(***************************************************************************)
(* FFMPEG_AudioWriter and ffmpeg_audiowrite                                *)
(* (src/moviepy/audio/io/ffmpeg_audiowriter.py) as a state machine.        *)
(*                                                                         *)
(* The writer object owns a subprocess.Popen handle whose stdin is a       *)
(* buffered pipe (Popen's default bufsize) and whose stderr is either a    *)
(* captured pipe or a caller-owned file.  The encoder is a concurrent      *)
(* process: it reads the pipe, may exit with an error at any moment, and   *)
(* finishes successfully only after it has seen end-of-file on its input.  *)
(*                                                                         *)
(* Two callers drive the writer:                                           *)
(*   mode = "session" : ffmpeg_audiowrite, lines 198-224                   *)
(*   mode = "client"  : any sequence of write_frames / close / with-block  *)
(*                      / finalizer calls on one writer                    *)
(***************************************************************************)
EXTENDS Integers, Sequences, FiniteSets

\* ---------------------------------------------------------------- bounds
NChunks == 3      \* chunks the frame source of a session yields
PipeCap == 2      \* chunks the OS pipe of the encoder's stdin holds
ErrCap  == 2      \* diagnostic messages the OS pipe of a captured stderr holds
MaxOps  == 4      \* method calls the client makes before it drops the writer

\* ------------------------------------------------------- diagnostic texts
\* A diagnostic text is modelled by the set of the markers it contains; the
\* four markers are the substrings write_frames looks for.
Markers ==
    {"Unknown encoder", "incorrect codec parameters ?",
     "bitrate not specified", "Invalid encoder type"}

DiagTexts == SUBSET Markers

VARIABLES
    mode,           \* "session" | "client"
    write_logfile,  \* the caller asked for / supplies a file sink
    codecKnown,     \* the encoder knows the codec it was started with
    pc,             \* control point of the caller
    writer,         \* the FFMPEG_AudioWriter: [proc, logfile]
    popen,          \* the Popen object: [stdin, stderr, returncode]
    enc,            \* the encoder process: "none" | "running" | "ok" | "failed"
    pipe,           \* chunks sitting in the OS pipe of the encoder's stdin
    buffered,       \* TRUE: the BufferedWriter of proc.stdin holds unflushed bytes
    diag,           \* what the encoder has written on its diagnostic stream
    errpipe,        \* diagnostics sitting unread in the captured stderr pipe
    logf,           \* the log file object: "none" | "open" | "closed"
    todo,           \* chunks the frame source has still to yield
    chunk,          \* size class of the chunk in hand: "small" | "big" | "none"
    written,        \* write_frames calls that returned normally
    err,            \* exception that left the session, or "none"
    last,           \* outcome of the most recent writer method call, with the
                    \* statements the body of close has run, in order
    notes,          \* messages given to the logger
    calls,          \* counters: calls of write_frames and close, runs of the body of
                    \* close, normal returns of close, reap calls (communicate or
                    \* wait), composite errors raised, stdin.write statements run
    scope,          \* with-block of the client: "out" | "in" | "left"
    entered,        \* what __enter__ returned: "none" | "self"
    fin,            \* the finalizer: "no" | "wait" | "done"
    ops,            \* method calls the client has made
    config,         \* the arguments of FFMPEG_AudioWriter.__init__
    cmd,            \* the command line __init__ has built
    args,           \* the arguments of crop, each <<>> (None) or <<value>>
    region          \* the slice bounds crop has computed

vars == <<mode, write_logfile, codecKnown, pc, writer, popen, enc, pipe,
          buffered, diag, errpipe, logf, todo, chunk, written, err, last, notes,
          calls, scope, entered, fin, ops, config, cmd, args, region>>

\* What no operation of the writer or the session changes.
aux == <<config, args, region>>

Exited == {"ok", "failed"}

\* The composite error message of write_frames: the failure it embeds, the
\* file name, the diagnostic text, and the hints appended, in order.
NoMsg == [cause |-> "none", path |-> "none", text |-> {}, hints |-> <<>>]

NoCall == [op |-> "none", exc |-> "none", hint |-> "none", size |-> "none",
           src |-> "none", msg |-> NoMsg, steps |-> <<>>]

\* ------------------------------------------------- constructor arguments
\* "None" stands for an argument left at None; ffmpeg_params is None or a
\* list of strings.
NoParams == [given |-> FALSE, items |-> <<>>]

ParamLists ==
    {<<>>, <<"-q:a">>, <<"-q:a", "5">>, <<"5", "-q:a">>, <<"-vn", "-i">>}

Configs ==
    [nbytes : {1, 2, 4}, nchannels : {1, 2}, fps_input : {22050, 44100},
     codec : {"libvorbis"}, bitrate : {"None", "128k"},
     input_video : {"None", "video.mp4"},
     ffmpeg_params : {NoParams} \cup [given : {TRUE}, items : ParamLists]]

\* The arguments ffmpeg_audiowrite leaves at their defaults, lines 204-213.
DefaultConfig ==
    [nbytes |-> 2, nchannels |-> 2, fps_input |-> 44100, codec |-> "libvorbis",
     bitrate |-> "None", input_video |-> "None", ffmpeg_params |-> NoParams]

WriterInit ==
    /\ mode \in {"session", "client"}
    /\ write_logfile \in BOOLEAN
    /\ codecKnown \in BOOLEAN
    /\ pc = IF mode = "session" THEN "s_open" ELSE "c_new"
    /\ writer = [proc |-> "unset", logfile |-> "unset"]
    /\ popen = [stdin |-> "None", stderr |-> "None", returncode |-> "None"]
    /\ enc = "none"
    /\ pipe = 0
    /\ buffered = FALSE
    /\ diag = {}
    /\ errpipe = 0
    /\ logf = IF mode = "client" /\ write_logfile THEN "open" ELSE "none"
    /\ todo = NChunks
    /\ chunk = "none"
    /\ written = 0
    /\ err = "none"
    /\ last = NoCall
    /\ notes = <<>>
    /\ calls = [write |-> 0, close |-> 0, bodies |-> 0, returns |-> 0,
                reaps |-> 0, composite |-> 0, attempts |-> 0]
    /\ scope = "out"
    /\ entered = "none"
    /\ fin = "no"
    /\ ops = 0
    /\ cmd = <<>>

\* ----------------------------------------------------- crop arguments
\* crop.py, lines 11-18: every argument defaults to None.
None == <<>>

NoArgs ==
    [x1 |-> None, y1 |-> None, x2 |-> None, y2 |-> None, width |-> None,
     height |-> None, x_center |-> None, y_center |-> None]

NoRegion == [exc |-> "pending", x1 |-> 0, x2 |-> 0, y1 |-> 0, y2 |-> 0]

CropIdle == args = NoArgs /\ region = NoRegion

Init ==
    /\ WriterInit
    /\ config = DefaultConfig
    /\ CropIdle


\* =================================================== FFMPEG_AudioWriter
\* __init__, lines 60-62: no sink given means the diagnostics are captured.
sink(logfile) == IF logfile = "None" THEN "PIPE" ELSE "FILE"

\* __init__, lines 97-101: Popen(stdin=PIPE, stdout=DEVNULL, stderr=logfile).
\* proc.stderr is a pipe object only when the diagnostics are captured.
Popen(logfile) ==
    [stdin |-> "open",
     stderr |-> IF logfile = "PIPE" THEN "open" ELSE "None",
     returncode |-> "None"]

\* write_frames, line 106: what self.proc.stdin.write(...) does.  A small
\* chunk that finds the buffer empty is only copied into the buffer; any
\* other write has to reach the OS pipe, and fails with BrokenPipeError once
\* the encoder has exited.  Without a process handle, with stdin set to
\* None, or with stdin closed, the statement fails before any byte moves.
reaches_pipe(size, buf) == size = "big" \/ buf

stdin_write(w, p, e, buf, size) ==
    IF w.proc # "Popen" THEN "AttributeError"
    ELSE IF p.stdin = "None" THEN "AttributeError"
    ELSE IF p.stdin = "closed" THEN "ValueError"
    ELSE IF reaches_pipe(size, buf) /\ e \in Exited THEN "BrokenPipeError"
    ELSE "ok"

\* (variant: the handler writes the chunk once more before giving up)
write_attempts_retry(out) == IF out = "BrokenPipeError" THEN 2 ELSE 1

\* write_frames, lines 105-107: the try block runs one stdin.write, and no
\* path of the handler leads back to it.
write_attempts(out) == 1

\* write_frames, line 107: except IOError.
is_IOError(exc) == exc = "BrokenPipeError"

\* (variant: the handler only drains the pipes and never waits)
communicate_nowait(p) ==
    [stdin |-> "closed",
     stderr |-> IF p.stderr = "open" THEN "closed" ELSE p.stderr,
     returncode |-> p.returncode]

\* write_frames, line 108: Popen.communicate() closes stdin, reads the
\* captured stderr to its end and closes it, and waits for the process.
communicate(p) ==
    [stdin |-> "closed",
     stderr |-> IF p.stderr = "open" THEN "closed" ELSE p.stderr,
     returncode |-> "set"]

\* (variant: the handler closes the file once it has read it)
seek_read_close(f) == "closed"

\* write_frames, lines 114-115: self.logfile.seek(0) and self.logfile.read()
\* move the position of the file and leave the file object as it is.
seek_read(f) == f

\* (variant: the text is always taken from what communicate returned)
diag_source_pipe_only(p) == "pipe"

\* write_frames, lines 109-115: where the diagnostic text is taken from.
diag_source(p) == IF p.stderr # "None" THEN "pipe" ELSE "file"

\* (variant: the first two tests of the chain swapped)
classify_swapped(text) ==
    IF "incorrect codec parameters ?" \in text THEN "codec_vs_extension"
    ELSE IF "Unknown encoder" \in text THEN "codec_not_found"
    ELSE IF "bitrate not specified" \in text THEN "bitrate_unsuitable"
    ELSE IF "Invalid encoder type" \in text THEN "not_for_audio"
    ELSE "none"

\* write_frames, lines 122-152: the hint appended to the base message.
classify(text) ==
    IF "Unknown encoder" \in text THEN "codec_not_found"
    ELSE IF "incorrect codec parameters ?" \in text THEN "codec_vs_extension"
    ELSE IF "bitrate not specified" \in text THEN "bitrate_unsuitable"
    ELSE IF "Invalid encoder type" \in text THEN "not_for_audio"
    ELSE "none"

\* (variant: only the truth test, without hasattr)
close_guard_truthy(w) == w.proc # "None"

\* (variant: only hasattr(self, "proc"))
close_guard_hasattr(w) == w.proc # "unset"

\* (variant: independent if statements instead of the if/elif chain)
compose_every_hint(cause, text) ==
    [cause |-> cause, path |-> "filename", text |-> text,
     hints |->
        (IF "Unknown encoder" \in text THEN <<"codec_not_found">> ELSE <<>>)
        \o (IF "incorrect codec parameters ?" \in text
            THEN <<"codec_vs_extension">> ELSE <<>>)
        \o (IF "bitrate not specified" \in text
            THEN <<"bitrate_unsuitable">> ELSE <<>>)
        \o (IF "Invalid encoder type" \in text THEN <<"not_for_audio">> ELSE <<>>)]

\* write_frames, lines 117-154: the message of the IOError that is raised:
\* "{err} ... while writing file {self.filename}: {ffmpeg_error}", then the
\* hint of the branch of the if/elif chain that was taken, if any.
compose(cause, text) ==
    [cause |-> cause, path |-> "filename", text |-> text,
     hints |-> IF classify(text) = "none" THEN <<>> ELSE <<classify(text)>>]

\* close, line 158: hasattr(self, "proc") and self.proc.
close_guard(w) == w.proc = "Popen"

\* close, lines 159-163: both pipe attributes end as None.
close_pipes(p) == [p EXCEPT !.stdin = "None", !.stderr = "None"]

\* (variant: the diagnostic pipe is closed before standard input)
close_steps_stderr_first(p) ==
    (IF p.stderr # "None" THEN <<"stderr.close">> ELSE <<>>) \o <<"stdin.close">>

\* close, lines 159-163, as statements: self.proc.stdin.close() first, then
\* self.proc.stderr.close() when self.proc.stderr is set.
close_steps(p) ==
    <<"stdin.close">> \o (IF p.stderr # "None" THEN <<"stderr.close">> ELSE <<>>)

\* close, line 165: Popen.wait() records the exit status.
wait(p) == [p EXCEPT !.returncode = "set"]

\* (variant: the handle is kept)
close_keeps_handle(w) == w

\* close, line 166: self.proc = None.
close_release(w) == [w EXCEPT !.proc = "None"]

\* __enter__, line 175.
enter(w) == "self"


\* ------------------------------------------------- the encoder command
\* "%d" % n and "s%dle" % n on the numbers that occur.
dec(n) ==
    CASE n = 1 -> "1" [] n = 2 -> "2"
      [] n = 22050 -> "22050" [] n = 44100 -> "44100"

sle(bits) == CASE bits = 8 -> "s8le" [] bits = 16 -> "s16le" [] bits = 32 -> "s32le"

pcm_sle(bits) ==
    CASE bits = 8 -> "pcm_s8le" [] bits = 16 -> "pcm_s16le" [] bits = 32 -> "pcm_s32le"

\* (variant: the pass-through parameters are added before the bitrate)
build_cmd_params_first(c, lf) ==
    LET cmd0 == <<"FFMPEG_BINARY", "-y", "-loglevel",
                  IF lf = "PIPE" THEN "error" ELSE "info",
                  "-f", sle(8 * c.nbytes), "-acodec", pcm_sle(8 * c.nbytes),
                  "-ar", dec(c.fps_input), "-ac", dec(c.nchannels), "-i", "-">>
        cmd1 == IF c.input_video = "None" THEN cmd0 \o <<"-vn">>
                ELSE cmd0 \o <<"-i", c.input_video, "-vcodec", "copy">>
        cmd2 == cmd1 \o <<"-acodec", c.codec>> \o <<"-ar", dec(c.fps_input)>>
        cmd3 == cmd2 \o <<"-strict", "-2">>
        cmd4 == IF c.ffmpeg_params.given THEN cmd3 \o c.ffmpeg_params.items
                ELSE cmd3
        cmd5 == IF c.bitrate # "None" THEN cmd4 \o <<"-ab", c.bitrate>> ELSE cmd4
    IN cmd5 \o <<"filename">>

\* __init__, lines 67-95.
build_cmd(c, lf) ==
    LET cmd0 == <<"FFMPEG_BINARY", "-y", "-loglevel",
                  IF lf = "PIPE" THEN "error" ELSE "info",
                  "-f", sle(8 * c.nbytes), "-acodec", pcm_sle(8 * c.nbytes),
                  "-ar", dec(c.fps_input), "-ac", dec(c.nchannels), "-i", "-">>
        cmd1 == IF c.input_video = "None" THEN cmd0 \o <<"-vn">>
                ELSE cmd0 \o <<"-i", c.input_video, "-vcodec", "copy">>
        cmd2 == cmd1 \o <<"-acodec", c.codec>> \o <<"-ar", dec(c.fps_input)>>
        cmd3 == cmd2 \o <<"-strict", "-2">>
        cmd4 == IF c.bitrate # "None" THEN cmd3 \o <<"-ab", c.bitrate>> ELSE cmd3
        cmd5 == IF c.ffmpeg_params.given THEN cmd4 \o c.ffmpeg_params.items
                ELSE cmd4
    IN cmd5 \o <<"filename">>

\* ---------------------------------------------------------- __init__
\* Lines 60-101.  The attributes are set before Popen is called, so a
\* Popen that raises leaves an object without a proc attribute.
Construct ==
    /\ pc \in {"s_new", "c_new"}
    /\ \E started \in BOOLEAN :
        LET lf == sink(IF write_logfile THEN "file" ELSE "None") IN
        /\ writer' = [proc |-> IF started THEN "Popen" ELSE "unset",
                      logfile |-> lf]
        /\ popen' = IF started THEN Popen(lf) ELSE popen
        /\ enc' = IF started THEN "running" ELSE enc
        /\ last' = [NoCall EXCEPT !.op = "__init__",
                                  !.exc = IF started THEN "none" ELSE "OSError"]
        /\ pc' = IF mode = "session"
                 THEN (IF started THEN "s_loop" ELSE "raised")
                 ELSE (IF started THEN "idle" ELSE "lost")
        /\ cmd' = build_cmd(config, lf)
        /\ err' = IF mode = "session" /\ ~started THEN "OSError" ELSE err
    /\ UNCHANGED <<aux, mode, write_logfile, codecKnown, pipe, buffered, diag, errpipe, logf,
                   todo, chunk, written, notes, calls, scope, entered, fin, ops>>

\* ------------------------------------------------------ write_frames
\* Lines 103-154, for a chunk of the given size class; the caller goes on
\* at okpc when the call returns and at errpc when it raises.  A write that
\* has to reach a full pipe blocks until the encoder reads or exits.
pipe_units(size, buf) ==
    (IF buf THEN 1 ELSE 0) + (IF size = "big" THEN 1 ELSE 0)

write_frames(size, okpc, errpc) ==
    LET out == stdin_write(writer, popen, enc, buffered, size)
        raw == reaches_pipe(size, buffered)
        src == diag_source(popen)
        readable == src = "pipe" \/ logf = "open"
    IN
    /\ (out = "ok" /\ raw) => pipe + pipe_units(size, buffered) <= PipeCap
    /\ IF out = "ok" THEN
           /\ pipe' = IF raw THEN pipe + pipe_units(size, buffered) ELSE pipe
           /\ buffered' = (size = "small")
           /\ written' = written + 1
           /\ last' = [NoCall EXCEPT !.op = "write_frames", !.size = size]
           /\ calls' = [calls EXCEPT !.write = @ + 1,
                                     !.attempts = @ + write_attempts(out)]
           /\ pc' = okpc
           /\ UNCHANGED <<popen, err, errpipe, logf>>
       ELSE IF is_IOError(out) THEN
           \* lines 108-154: reap, fetch the diagnostics, classify, raise
           /\ popen' = communicate(popen)
           /\ errpipe' = 0
           /\ logf' = IF src = "file" /\ readable THEN seek_read(logf) ELSE logf
           /\ buffered' = FALSE
           /\ calls' = [calls EXCEPT !.write = @ + 1, !.reaps = @ + 1,
                                     !.attempts = @ + write_attempts(out),
                                     !.composite = IF readable THEN @ + 1 ELSE @]
           /\ last' = IF readable
                      THEN [op |-> "write_frames", exc |-> "IOError",
                            hint |-> classify(diag), size |-> size, src |-> src,
                            msg |-> compose(out, diag), steps |-> <<>>]
                      ELSE [NoCall EXCEPT !.op = "write_frames",
                                          !.exc = "ValueError", !.size = size]
           /\ err' = IF mode = "session"
                     THEN (IF readable THEN "IOError" ELSE "ValueError")
                     ELSE err
           /\ pc' = errpc
           /\ UNCHANGED <<pipe, written>>
       ELSE
           \* not an IOError: the exception leaves write_frames as it is
           /\ last' = [NoCall EXCEPT !.op = "write_frames", !.exc = out,
                                     !.size = size]
           /\ calls' = [calls EXCEPT !.write = @ + 1,
                                     !.attempts = @ + write_attempts(out)]
           /\ err' = IF mode = "session" THEN out ELSE err
           /\ pc' = errpc
           /\ UNCHANGED <<popen, pipe, buffered, written, errpipe, logf>>
    /\ UNCHANGED <<writer, enc, diag>>

\* ------------------------------------------------------------- close
\* Lines 156-166.  close returns at once when the guard fails ("noop");
\* closing stdin flushes the buffer, which raises BrokenPipeError when the
\* encoder has exited ("raise": the file object is closed all the same and
\* the rest of close is skipped); otherwise the pipes are closed and close
\* blocks in wait() until the encoder has exited ("wait").
close_outcome ==
    IF ~close_guard(writer) THEN "noop"
    ELSE IF popen.stdin = "open" /\ buffered /\ enc \in Exited THEN "raise"
    ELSE "wait"

CloseStart ==
    LET flush == popen.stdin = "open" /\ buffered IN
    /\ (close_outcome = "wait" /\ flush) => pipe < PipeCap
    /\ CASE close_outcome = "noop" ->
              /\ calls' = [calls EXCEPT !.close = @ + 1, !.returns = @ + 1]
              /\ last' = [NoCall EXCEPT !.op = "close"]
              /\ UNCHANGED <<popen, pipe, buffered, errpipe>>
         [] close_outcome = "raise" ->
              /\ popen' = [popen EXCEPT !.stdin = "closed"]
              /\ buffered' = FALSE
              /\ calls' = [calls EXCEPT !.close = @ + 1, !.bodies = @ + 1]
              /\ last' = [NoCall EXCEPT !.op = "close", !.exc = "BrokenPipeError",
                                        !.steps = <<"stdin.close">>]
              /\ UNCHANGED <<pipe, errpipe>>
         [] close_outcome = "wait" ->
              /\ popen' = close_pipes(popen)
              /\ errpipe' = 0
              /\ pipe' = IF flush THEN pipe + 1 ELSE pipe
              /\ buffered' = FALSE
              /\ calls' = [calls EXCEPT !.close = @ + 1, !.bodies = @ + 1]
              /\ last' = [NoCall EXCEPT !.op = "close", !.exc = "pending",
                                        !.steps = close_steps(popen)]
    /\ UNCHANGED <<writer, enc, diag>>

\* Lines 165-166: wait() returns once the encoder has exited.
CloseFinish ==
    /\ enc \in Exited
    /\ popen' = wait(popen)
    /\ writer' = close_release(writer)
    /\ calls' = [calls EXCEPT !.reaps = @ + 1, !.returns = @ + 1]
    /\ last' = [NoCall EXCEPT !.op = "close",
                              !.steps = last.steps \o <<"wait", "release">>]
    /\ UNCHANGED <<enc, diag, errpipe, pipe, buffered>>


\* ================================================== ffmpeg_audiowrite
\* Lines 198-203: open the log file if asked to, announce the work.
SessionOpen ==
    /\ pc = "s_open"
    /\ logf' = IF write_logfile THEN "open" ELSE logf
    /\ notes' = Append(notes, "Writing audio")
    /\ pc' = "s_new"
    /\ UNCHANGED <<aux, cmd, mode, write_logfile, codecKnown, writer, popen, enc, pipe,
                   buffered, diag, errpipe, todo, chunk, written, err, last, calls,
                   scope, entered, fin, ops>>

\* (variant: the loop is left one chunk early)
loop_ends_early(n) == n <= 1

\* Lines 215-217: the for loop is left when iter_chunks has no chunk left.
loop_ends(n) == n = 0

\* Lines 215-217: clip.iter_chunks yields the next chunk, raises, or ends.
SessionNext ==
    /\ pc = "s_loop"
    /\ \/ /\ ~loop_ends(todo)
          /\ \E size \in {"small", "big"} : chunk' = size
          /\ todo' = todo - 1
          /\ pc' = "s_write"
          /\ err' = err
       \/ /\ ~loop_ends(todo)
          /\ err' = "SourceError"
          /\ pc' = "raised"
          /\ UNCHANGED <<todo, chunk>>
       \/ /\ loop_ends(todo)
          /\ pc' = "s_close"
          /\ UNCHANGED <<todo, chunk, err>>
    /\ UNCHANGED <<aux, cmd, mode, write_logfile, codecKnown, writer, popen, enc, pipe,
                   buffered, diag, errpipe, logf, written, last, notes, calls, scope,
                   entered, fin, ops>>

\* Line 218.
SessionWrite ==
    /\ pc = "s_write"
    /\ write_frames(chunk, "s_loop", "raised")
    /\ chunk' = "none"
    /\ UNCHANGED <<aux, cmd, mode, write_logfile, codecKnown, todo, notes, scope,
                   entered, fin, ops>>

\* Line 220, up to the wait inside close.
SessionClose ==
    /\ pc = "s_close"
    /\ CloseStart
    /\ pc' = CASE close_outcome = "noop" -> "s_finish"
               [] close_outcome = "raise" -> "raised"
               [] close_outcome = "wait" -> "s_wait"
    /\ err' = IF close_outcome = "raise" THEN "BrokenPipeError" ELSE err
    /\ UNCHANGED <<aux, cmd, mode, write_logfile, codecKnown, logf, todo, chunk, written,
                   notes, scope, entered, fin, ops>>

SessionCloseWait ==
    /\ pc = "s_wait"
    /\ CloseFinish
    /\ pc' = "s_finish"
    /\ UNCHANGED <<aux, cmd, mode, write_logfile, codecKnown, logf, todo, chunk, written,
                   err, notes, scope, entered, fin, ops>>

\* Lines 222-224.
SessionFinish ==
    /\ pc = "s_finish"
    /\ logf' = IF write_logfile THEN "closed" ELSE logf
    /\ notes' = Append(notes, "Done")
    /\ pc' = "done"
    /\ UNCHANGED <<aux, cmd, mode, write_logfile, codecKnown, writer, popen, enc, pipe,
                   buffered, diag, errpipe, todo, chunk, written, err, last, calls,
                   scope, entered, fin, ops>>

\* ======================================================== the client
\* Any user of one writer object: it may write, close, open a with-block on
\* the writer, raise inside the block, and finally drop the object.
ClientWrite ==
    /\ pc = "idle" /\ ops < MaxOps
    /\ \E size \in {"small", "big"} :
          write_frames(size, "idle", IF scope = "in" THEN "unwind" ELSE "idle")
    /\ ops' = ops + 1
    /\ UNCHANGED <<aux, cmd, mode, write_logfile, codecKnown, todo, chunk, notes,
                   scope, entered, fin>>

ClientClose ==
    /\ pc = "idle" /\ ops < MaxOps
    /\ CloseStart
    /\ pc' = CASE close_outcome = "noop" -> "idle"
               [] close_outcome = "raise" ->
                      (IF scope = "in" THEN "unwind" ELSE "idle")
               [] close_outcome = "wait" -> "c_wait"
    /\ ops' = ops + 1
    /\ UNCHANGED <<aux, cmd, mode, write_logfile, codecKnown, logf, todo, chunk, written,
                   err, notes, scope, entered, fin>>

ClientCloseWait ==
    /\ pc = "c_wait"
    /\ CloseFinish
    /\ pc' = "idle"
    /\ UNCHANGED <<aux, cmd, mode, write_logfile, codecKnown, logf, todo, chunk, written,
                   err, notes, scope, entered, fin, ops>>

\* __enter__, lines 174-175.
Enter ==
    /\ pc = "idle" /\ scope = "out" /\ ops < MaxOps
    /\ scope' = "in"
    /\ entered' = enter(writer)
    /\ ops' = ops + 1
    /\ UNCHANGED <<aux, cmd, mode, write_logfile, codecKnown, pc, writer, popen, enc, pipe,
                   buffered, diag, errpipe, logf, todo, chunk, written, err, last, notes,
                   calls, fin>>

\* The body of the with-block raises (for instance its frame source).
BodyRaise ==
    /\ pc = "idle" /\ scope = "in"
    /\ pc' = "unwind"
    /\ UNCHANGED <<aux, cmd, mode, write_logfile, codecKnown, writer, popen, enc, pipe,
                   buffered, diag, errpipe, logf, todo, chunk, written, err, last, notes,
                   calls, scope, entered, fin, ops>>

\* __exit__, lines 177-178, up to the wait inside close.  The block is left
\* when __exit__ returns or raises.
Exit ==
    /\ scope = "in" /\ pc \in {"idle", "unwind"}
    /\ CloseStart
    /\ pc' = IF close_outcome = "wait" THEN "x_wait" ELSE "idle"
    /\ scope' = IF close_outcome = "wait" THEN scope ELSE "left"
    /\ UNCHANGED <<aux, cmd, mode, write_logfile, codecKnown, logf, todo, chunk, written,
                   err, notes, entered, fin, ops>>

ExitWait ==
    /\ pc = "x_wait"
    /\ CloseFinish
    /\ pc' = "idle"
    /\ scope' = "left"
    /\ UNCHANGED <<aux, cmd, mode, write_logfile, codecKnown, logf, todo, chunk, written,
                   err, notes, entered, fin, ops>>

\* ------------------------------------------------------------ __del__
\* Lines 168-170.  The finalizer runs once nothing refers to the writer any
\* more: after ffmpeg_audiowrite has returned or raised, after a failed
\* construction, or when the client drops the object outside a with-block.
\* An exception raised inside a finalizer is discarded.
Unreferenced ==
    IF mode = "session" THEN pc \in {"done", "raised"}
    ELSE pc = "lost" \/ (pc = "idle" /\ scope # "in")

Del ==
    /\ fin = "no" /\ Unreferenced
    /\ CloseStart
    /\ fin' = IF close_outcome = "wait" THEN "wait" ELSE "done"
    /\ pc' = IF mode = "session" THEN pc ELSE "dead"
    /\ UNCHANGED <<aux, cmd, mode, write_logfile, codecKnown, logf, todo, chunk, written,
                   err, notes, scope, entered, ops>>

DelWait ==
    /\ fin = "wait"
    /\ CloseFinish
    /\ fin' = "done"
    /\ UNCHANGED <<aux, cmd, mode, write_logfile, codecKnown, pc, logf, todo, chunk,
                   written, err, notes, scope, entered, ops>>

\* ======================================================= the encoder
\* The process started at line 101.  It consumes what is in the pipe.
EncRead ==
    /\ enc = "running" /\ codecKnown /\ pipe > 0
    /\ pipe' = pipe - 1
    /\ UNCHANGED <<aux, cmd, mode, write_logfile, codecKnown, pc, writer, popen, enc,
                   buffered, diag, errpipe, logf, todo, chunk, written, err, last, notes,
                   calls, scope, entered, fin, ops>>

\* It finalizes the file and exits with status 0 once it has read all of its
\* input up to the end-of-file that closing stdin produces.
EncFinish ==
    /\ enc = "running" /\ codecKnown
    /\ popen.stdin # "open" /\ pipe = 0
    /\ enc' = "ok"
    /\ UNCHANGED <<aux, cmd, mode, write_logfile, codecKnown, pc, writer, popen, pipe,
                   buffered, diag, errpipe, logf, todo, chunk, written, err, last, notes,
                   calls, scope, entered, fin, ops>>

\* Lines 97-101 and 106-108: stderr=sp.PIPE is read by nobody before
\* communicate() or close(), so what the encoder writes there stays in the
\* OS pipe.
captured(w, p) == w.logfile = "PIPE" /\ p.stderr = "open"

\* It may exit with an error at any moment, leaving a diagnostic text on its
\* stderr; what is left in the pipe is lost.  An encoder started with a codec
\* it does not know exits with a text that contains "Unknown encoder".  The
\* text has to fit in the captured pipe.
EncFail ==
    /\ enc = "running"
    /\ captured(writer, popen) => errpipe < ErrCap
    /\ \E text \in DiagTexts :
          /\ ("Unknown encoder" \in text) <=> ~codecKnown
          /\ diag' = text
    /\ errpipe' = IF captured(writer, popen) THEN errpipe + 1 ELSE errpipe
    /\ enc' = "failed"
    /\ pipe' = 0
    /\ UNCHANGED <<aux, cmd, mode, write_logfile, codecKnown, pc, writer, popen, buffered,
                   logf, todo, chunk, written, err, last, notes, calls, scope,
                   entered, fin, ops>>

\* While it runs it may write a message (a warning, a progress line) on its
\* stderr.  A write to a file sink always completes and changes nothing
\* here; a write to the captured pipe completes while the pipe has room and
\* blocks the encoder once the pipe is full.
EncDiag ==
    /\ enc = "running" /\ captured(writer, popen)
    /\ IF errpipe < ErrCap
       THEN errpipe' = errpipe + 1 /\ enc' = enc
       ELSE errpipe' = errpipe /\ enc' = "blocked"
    /\ UNCHANGED <<aux, cmd, mode, write_logfile, codecKnown, pc, writer, popen, pipe,
                   buffered, diag, logf, todo, chunk, written, err, last, notes,
                   calls, scope, entered, fin, ops>>

\* Line 162: once close() has closed the read end of the captured pipe, the
\* blocked write fails; the encoder is killed by SIGPIPE or carries on,
\* depending on its signal handling.
EncSigpipe ==
    /\ enc = "blocked" /\ popen.stderr # "open"
    /\ \/ enc' = "failed" /\ pipe' = 0
       \/ enc' = "running" /\ pipe' = pipe
    /\ UNCHANGED <<aux, cmd, mode, write_logfile, codecKnown, pc, writer, popen,
                   buffered, diag, errpipe, logf, todo, chunk, written, err, last,
                   notes, calls, scope, entered, fin, ops>>

Next ==
    \/ Construct
    \/ SessionOpen \/ SessionNext \/ SessionWrite
    \/ SessionClose \/ SessionCloseWait \/ SessionFinish
    \/ ClientWrite \/ ClientClose \/ ClientCloseWait
    \/ Enter \/ BodyRaise \/ Exit \/ ExitWait
    \/ Del \/ DelWait
    \/ EncRead \/ EncFinish \/ EncFail \/ EncDiag \/ EncSigpipe

Spec == Init /\ [][Next]_vars

\* The caller runs whenever it can (a blocked write or wait is a disabled
\* step), and so does the encoder: it reads, finishes, fails or writes a
\* message whenever it is able to.
CallerStep ==
    \/ Construct
    \/ SessionOpen \/ SessionNext \/ SessionWrite
    \/ SessionClose \/ SessionCloseWait \/ SessionFinish

EncoderStep == EncRead \/ EncFinish \/ EncFail \/ EncDiag \/ EncSigpipe

LiveSpec == Init /\ [][Next]_vars /\ WF_vars(CallerStep) /\ WF_vars(EncoderStep)


\* =============================================== the constructor alone
\* __init__ on every combination of its arguments.
CmdInit ==
    /\ WriterInit
    /\ mode = "client"
    /\ config \in Configs
    /\ CropIdle

CmdNext == Construct

CmdSpec == CmdInit /\ [][CmdNext]_vars

\* ================================================================ crop
\* src/moviepy/video/fx/crop.py.  The clip has ClipSize = (W, H) pixels; the
\* coordinates tried are 0..MaxCoord and the widths and heights are even.
MaxCoord == 2

ClipSize == <<4, 3>>

Opt(S) == {None} \cup {<<v>> : v \in S}

Sizes == {0, 2}

CropArgs ==
    [x1 : Opt(0..MaxCoord), y1 : Opt(0..MaxCoord),
     x2 : Opt(0..MaxCoord), y2 : Opt(0..MaxCoord),
     width : Opt(Sizes), height : Opt(Sizes),
     x_center : Opt(0..MaxCoord), y_center : Opt(0..MaxCoord)]

\* Python's truth test on an optional number: None and 0 are false.
truthy(o) == o # None /\ o[1] # 0

\* crop, lines 49-52 and 59-60 (the same statements as lines 54-57 and
\* 62-63 for the other axis): the bounds before the defaults are applied.
\* x_center - width / 2 with width None raises TypeError.
axis_bounds(a1, a2, size, center) ==
    LET first == IF truthy(size) /\ a1 # None
                 THEN [exc |-> "none", lo |-> a1, hi |-> <<a1[1] + size[1]>>]
                 ELSE IF truthy(size) /\ a2 # None
                 THEN [exc |-> "none", lo |-> <<a2[1] - size[1]>>, hi |-> a2]
                 ELSE [exc |-> "none", lo |-> a1, hi |-> a2]
    IN IF truthy(center)
       THEN IF size = None
            THEN [exc |-> "TypeError", lo |-> None, hi |-> None]
            ELSE [exc |-> "none", lo |-> <<center[1] - size[1] \div 2>>,
                                  hi |-> <<center[1] + size[1] \div 2>>]
       ELSE first

\* crop, lines 65-68: x1 = x1 or 0, x2 = x2 or clip.size[0].
or_default(o, d) == IF truthy(o) THEN o[1] ELSE d

\* crop, line 71: the indices frame[lo:hi] keeps on an axis of n pixels
\* (a negative bound counts from the end, bounds are clamped to the axis).
slice(lo, hi, n) ==
    LET norm(i) == IF i < 0 THEN (IF i + n < 0 THEN 0 ELSE i + n)
                   ELSE (IF i > n THEN n ELSE i)
    IN {i \in 0..n - 1 : norm(lo) <= i /\ i < norm(hi)}

\* crop, lines 49-72.
Crop ==
    /\ region.exc = "pending"
    /\ LET x == axis_bounds(args.x1, args.x2, args.width, args.x_center)
           y == axis_bounds(args.y1, args.y2, args.height, args.y_center)
       IN region' =
            IF x.exc # "none" \/ y.exc # "none"
            THEN [NoRegion EXCEPT !.exc = "TypeError"]
            ELSE [exc |-> "none",
                  x1 |-> or_default(x.lo, 0),
                  x2 |-> or_default(x.hi, ClipSize[1]),
                  y1 |-> or_default(y.lo, 0),
                  y2 |-> or_default(y.hi, ClipSize[2])]
    /\ UNCHANGED <<mode, write_logfile, codecKnown, pc, writer, popen, enc, pipe,
                   buffered, diag, errpipe, logf, todo, chunk, written, err, last, notes,
                   calls, scope, entered, fin, ops, config, cmd, args>>

CropInit ==
    /\ WriterInit
    /\ mode = "client" /\ ~write_logfile /\ codecKnown
    /\ config = DefaultConfig
    /\ args \in CropArgs
    /\ region = NoRegion

CropNext == Crop

CropSpec == CropInit /\ [][CropNext]_vars

\* ============================================================= claims

\* C1: every encoder process is reaped (communicate or wait) exactly once by
\* the time the writer has released it, and no reap is issued on a process
\* that was reaped before.
C1_ReapedExactlyOnce ==
    /\ calls.reaps <= 1
    /\ writer.proc = "None" => calls.reaps = 1

\* C2: once a close() call has returned, every later close() call raises
\* nothing, closes no pipe, waits on no process and changes nothing in the
\* writer.
C2_CloseIdempotent ==
    [][ (calls.returns >= 1 /\ calls'.close = calls.close + 1)
        => /\ writer' = writer /\ popen' = popen
           /\ pipe' = pipe /\ buffered' = buffered
           /\ calls'.bodies = calls.bodies /\ calls'.reaps = calls.reaps
           /\ last'.exc = "none" ]_vars

C2_Witness ==
    /\ calls.close >= 2 /\ calls.returns >= 2 /\ calls.bodies = 1
    /\ last.op = "close"

\* C3: in a session, when write_frames or the chunk source raises after the
\* writer was constructed, close() has returned before the error leaves
\* ffmpeg_audiowrite.
C3_ClosedBeforePropagation ==
    (mode = "session" /\ pc = "raised" /\ fin = "no"
       /\ err \in {"IOError", "SourceError"})
    => calls.returns >= 1

\* C4: whenever write_frames has raised its composite error, the writer's
\* end of stdin is closed and the encoder has been reaped.
C4_CleanupBeforeRaise ==
    calls.composite >= 1
    => /\ popen.stdin # "open"
       /\ popen.returncode = "set"
       /\ enc \in Exited

C4_Witness ==
    /\ last.op = "write_frames" /\ last.exc = "IOError"
    /\ calls.composite = 1

\* C5: right after a write_frames call has failed with the composite error,
\* the writer holds no process handle.
C5_ReleasedAfterFailedWrite ==
    (last.op = "write_frames" /\ last.exc = "IOError") => writer.proc = "None"

\* C6: a session returns normally (and says "Done") only if every chunk was
\* written and the encoder exited successfully.
C6_NoPartialSuccess ==
    (mode = "session" /\ pc = "done")
    => /\ written = NChunks
       /\ enc = "ok"

\* C7: with a codec the encoder does not know, the first write_frames call of
\* the session raises the composite error with the unknown-codec hint.
C7_FirstWriteRaises ==
    (mode = "session" /\ ~codecKnown /\ last.op = "write_frames"
       /\ calls.write = 1)
    => /\ last.exc = "IOError"
       /\ last.hint = "codec_not_found"

\* C7 as amended: with a codec the encoder does not know, every write_frames
\* call of the session whose bytes have to reach the pipe after the encoder
\* has exited raises the composite error with the unknown-codec hint and
\* does not count as written.
C7_WriteAfterExitRaises ==
    [][ (mode = "session" /\ ~codecKnown /\ calls'.write = calls.write + 1
           /\ enc = "failed" /\ reaches_pipe(chunk, buffered))
        => /\ last'.exc = "IOError"
           /\ last'.hint = "codec_not_found"
           /\ written' = written ]_vars

C7_Witness ==
    /\ mode = "session" /\ ~codecKnown
    /\ written >= 1
    /\ last.op = "write_frames" /\ last.exc = "IOError"
    /\ last.hint = "codec_not_found"

\* C8: __enter__ yields the writer, leaving the with-block calls close(), and
\* the body of close() runs exactly once for the process, whatever runs
\* after the block.
C8_ScopeClosesOnce ==
    scope = "left"
    => /\ entered = "self"
       /\ calls.close >= 1
       /\ calls.bodies = 1

\* C9: a session that was asked for a log file never ends with the file
\* still open.
C9_LogfileClosedAtEnd ==
    (mode = "session" /\ write_logfile /\ pc \in {"done", "raised"})
    => logf = "closed"

\* C10: a write_frames call made after close() has returned delivers no
\* byte, raises an error that is not the composite IOError, and leaves the
\* writer closed.
C10_WriteAfterClose ==
    [][ (calls.returns >= 1 /\ calls'.write = calls.write + 1)
        => /\ pipe' = pipe /\ buffered' = buffered /\ written' = written
           /\ last'.op = "write_frames" /\ last'.exc = "AttributeError"
           /\ calls'.composite = calls.composite
           /\ writer'.proc = "None" /\ popen' = popen ]_vars

C10_Witness ==
    /\ calls.returns >= 1
    /\ last.op = "write_frames" /\ last.exc = "AttributeError"
    /\ writer.proc = "None"

\* C11: when Popen raises in the constructor the failure reaches the caller,
\* and every close() on the writer left behind (the finalizer's included)
\* raises nothing and touches no pipe and no process.
C11_CloseAfterFailedInit ==
    [][ /\ (pc \in {"s_new", "c_new"} /\ writer'.proc = "unset"
              /\ writer'.logfile # "unset")
           => /\ last'.op = "__init__" /\ last'.exc = "OSError"
              /\ pc' \in {"raised", "lost"}
              /\ mode = "session" => err' = "OSError"
        /\ (writer.proc = "unset" /\ calls'.close = calls.close + 1)
           => /\ last'.op = "close" /\ last'.exc = "none"
              /\ calls'.returns = calls.returns + 1
              /\ calls'.bodies = calls.bodies /\ calls'.reaps = calls.reaps
              /\ writer' = writer /\ popen' = popen
              /\ enc' = enc /\ pipe' = pipe /\ buffered' = buffered ]_vars

C11_Witness ==
    /\ writer.proc = "unset" /\ writer.logfile # "unset"
    /\ fin = "done" /\ calls.close = 1 /\ calls.returns = 1
    /\ enc = "none"

\* C12: the composite error carries at most one hint, the one of the first
\* marker, in the order "Unknown encoder", "incorrect codec parameters ?",
\* "bitrate not specified", "Invalid encoder type", that the diagnostic text
\* contains; a text with no marker gets no hint.
Priority ==
    <<"Unknown encoder", "incorrect codec parameters ?",
      "bitrate not specified", "Invalid encoder type">>

HintFor ==
    [m \in Markers |->
        CASE m = "Unknown encoder" -> "codec_not_found"
          [] m = "incorrect codec parameters ?" -> "codec_vs_extension"
          [] m = "bitrate not specified" -> "bitrate_unsuitable"
          [] m = "Invalid encoder type" -> "not_for_audio"]

C12_FirstMatchHint ==
    (last.op = "write_frames" /\ last.exc = "IOError")
    => LET t == last.msg.text
           h == last.msg.hints
           found == {i \in 1..Len(Priority) : Priority[i] \in t}
       IN /\ t = diag
          /\ Len(h) <= 1
          /\ found = {} => h = <<>>
          /\ \A i \in found :
                (\A j \in found : i <= j) => h = <<HintFor[Priority[i]]>>

C12_Witness ==
    /\ last.op = "write_frames" /\ last.exc = "IOError"
    /\ last.msg.text = {"incorrect codec parameters ?", "bitrate not specified",
                        "Invalid encoder type"}
    /\ last.msg.hints = <<"codec_vs_extension">>

\* C13: the command the constructor builds is, in this order: the input
\* format, sample rate and channel count flags; the "-i -" marker; either
\* "-vn" or the video input followed by "-vcodec copy", never both; the output
\* codec, the output sample rate and "-strict -2"; "-ab bitrate" only when a
\* bitrate is given; the pass-through parameters as given; and the output
\* file as the last element.
C13_CommandOrder ==
    cmd # <<>>
    => LET c == config
           k == CHOOSE i \in 1..Len(cmd) - 1 :
                   /\ cmd[i] = "-i" /\ cmd[i + 1] = "-"
                   /\ \A j \in 1..i - 1 : ~(cmd[j] = "-i" /\ cmd[j + 1] = "-")
           video == IF c.input_video = "None" THEN <<"-vn">>
                    ELSE <<"-i", c.input_video, "-vcodec", "copy">>
           output == <<"-acodec", c.codec, "-ar", dec(c.fps_input),
                       "-strict", "-2">>
           rate == IF c.bitrate = "None" THEN <<>> ELSE <<"-ab", c.bitrate>>
           extra == c.ffmpeg_params.items
           v == k + 2
           o == v + Len(video)
           r == o + Len(output)
           e == r + Len(rate)
       IN /\ k = 13
          /\ SubSeq(cmd, k - 8, k - 1) =
                <<"-f", sle(8 * c.nbytes), "-acodec", pcm_sle(8 * c.nbytes),
                  "-ar", dec(c.fps_input), "-ac", dec(c.nchannels)>>
          /\ SubSeq(cmd, v, o - 1) = video
          /\ (\E i \in 1..r - 1 : cmd[i] = "-vn")
                <=> ~(\E i \in 1..r - 1 : cmd[i] = "-vcodec")
          /\ SubSeq(cmd, o, r - 1) = output
          /\ SubSeq(cmd, r, e - 1) = rate
          /\ (\E i \in 1..e - 1 : cmd[i] = "-ab") <=> c.bitrate # "None"
          /\ SubSeq(cmd, e, e + Len(extra) - 1) = extra
          /\ Len(cmd) = e + Len(extra)
          /\ cmd[Len(cmd)] = "filename"

C13_Witness ==
    /\ writer.proc = "Popen"
    /\ config.input_video = "video.mp4" /\ config.bitrate = "128k"
    /\ config.ffmpeg_params.items = <<"5", "-q:a">>
    /\ cmd[Len(cmd)] = "filename" /\ Len(cmd) = 29

Documented(a1, a2, size, center, n) ==
    LET lo == IF center # None THEN center[1] - size[1] \div 2
              ELSE IF a1 # None THEN a1[1]
              ELSE IF a2 # None /\ size # None THEN a2[1] - size[1]
              ELSE 0
        hi == IF center # None THEN center[1] + size[1] \div 2
              ELSE IF a1 # None /\ size # None THEN a1[1] + size[1]
              ELSE IF a2 # None THEN a2[1]
              ELSE n
    IN {i \in 0..n - 1 : lo <= i /\ i < hi}

\* The argument patterns of one axis the documentation names.
Named(a1, a2, size, center) ==
    \/ a1 # None /\ a2 # None /\ size = None /\ center = None
    \/ a1 # None /\ a2 = None /\ size # None /\ center = None
    \/ a1 = None /\ a2 # None /\ size # None /\ center = None
    \/ a1 = None /\ a2 = None /\ size # None /\ center # None
    \/ size = None /\ center = None /\ (a1 = None \/ a2 = None)

\* C15: for every combination of non-negative integer arguments (even width
\* and height) that the documentation names, crop conserves exactly the
\* documented columns and the documented rows of a clip of size ClipSize.
C15_DocumentedRectangle ==
    /\ region.exc # "pending"
    /\ Named(args.x1, args.x2, args.width, args.x_center)
    /\ Named(args.y1, args.y2, args.height, args.y_center)
    => /\ region.exc = "none"
       /\ slice(region.x1, region.x2, ClipSize[1])
            = Documented(args.x1, args.x2, args.width, args.x_center,
                         ClipSize[1])
       /\ slice(region.y1, region.y2, ClipSize[2])
            = Documented(args.y1, args.y2, args.height, args.y_center,
                         ClipSize[2])

\* ----------------------------------------------------------------- C16
\* C16: a close() that runs its body to the end closes standard input, then
\* the diagnostic pipe if the writer owns one, then waits for the process
\* and reaps it; while it waits both pipes are closed and the handle is still
\* held; the handle is dropped only once the process has exited and was
\* reaped; and a close() that has returned leaves no process handle.
C16_CloseOrder ==
    LET pipes == <<"stdin.close">>
                 \o (IF writer.logfile = "PIPE" THEN <<"stderr.close">> ELSE <<>>)
    IN
    /\ (last.op = "close" /\ last.exc = "pending")
         => /\ last.steps = pipes
            /\ popen.stdin = "None" /\ popen.stderr = "None"
            /\ writer.proc = "Popen"
    /\ (last.op = "close" /\ last.exc = "none" /\ last.steps # <<>>)
         => last.steps = pipes \o <<"wait", "release">>
    /\ (last.op = "close" /\ last.exc = "none") => writer.proc # "Popen"
    /\ writer.proc = "None" => (enc \in Exited /\ popen.returncode = "set")

\* A close() on a live encoder that owned its diagnostic pipe has returned:
\* the encoder finished only after it saw the end of its input.
C16_Witness ==
    /\ last.op = "close" /\ last.exc = "none"
    /\ last.steps = <<"stdin.close", "stderr.close", "wait", "release">>
    /\ enc = "ok"
    /\ writer.proc = "None"

\* ----------------------------------------------------------------- C17
\* C17: the diagnostic text of a composite error was taken from the captured
\* pipe when the writer was constructed without a sink and from the file
\* sink otherwise, and it is the whole text the encoder has left there.
C17_DiagnosticSource ==
    (last.op = "write_frames" /\ last.exc = "IOError")
        => /\ last.src = (IF writer.logfile = "PIPE" THEN "pipe" ELSE "file")
           /\ last.msg.text = diag

\* A write failed on a writer constructed with a file sink, after the
\* encoder had left a diagnostic text in the file.
C17_Witness ==
    /\ last.op = "write_frames" /\ last.exc = "IOError"
    /\ writer.logfile = "FILE" /\ last.src = "file"
    /\ last.msg.text # {}

\* ----------------------------------------------------------------- C18
\* C18: as long as a session has not raised, the chunk in hand is the one
\* that follows the chunks already written (chunk number NChunks - todo is
\* written as write number written + 1), no write is outstanding when the
\* next chunk is fetched, close() is called only once all NChunks chunks
\* have been written, the start notification is given before the first
\* write, and the completion notification is given only after close() has
\* returned.
C18_SessionSequence ==
    (mode = "session" /\ pc # "raised") =>
        /\ calls.write = written
        /\ pc = "s_write" => (NChunks - todo = written + 1 /\ chunk # "none")
        /\ pc = "s_loop" => NChunks - todo = written
        /\ pc \in {"s_open", "s_new", "s_loop", "s_write", "s_close"}
             => calls.close = 0
        /\ calls.close > 0 => (todo = 0 /\ written = NChunks)
        /\ calls.write > 0 => (notes # <<>> /\ notes[1] = "Writing audio")
        /\ pc \in {"s_new", "s_loop", "s_write", "s_close", "s_wait", "s_finish"}
             => notes = <<"Writing audio">>
        /\ pc = "done" => /\ notes = <<"Writing audio", "Done">>
                          /\ calls.returns >= 1
                          /\ written = NChunks

\* A session has written all its chunks, closed the writer and announced
\* the end, with an encoder that finished normally.
C18_Witness ==
    /\ mode = "session" /\ pc = "done"
    /\ written = NChunks /\ calls.write = NChunks
    /\ notes = <<"Writing audio", "Done">>
    /\ enc = "ok"

\* ----------------------------------------------------------------- C19
\* C19: every session eventually ends, with the completion notification or
\* with an error.
C19_SessionEnds == (mode = "session") ~> (pc \in {"done", "raised"})

\* ----------------------------------------------------------------- C20
\* C20: no method of the writer (the constructor, write_frames whether it
\* returns or raises, close() whoever calls it, up to and after its wait)
\* changes the state of the log file object: a file sink that is open stays
\* open until the session that opened it closes it.
C20_SinkLeftOpen ==
    [][ (last' # last \/ calls' # calls \/ writer' # writer \/ popen' # popen)
            => logf' = logf ]_vars

\* A writer with a file sink has raised a composite error, built from the
\* text read from the file, and was closed afterwards; the file is open.
C20_Witness ==
    /\ writer.logfile = "FILE" /\ logf = "open"
    /\ calls.composite >= 1
    /\ last.op = "close" /\ last.exc = "none" /\ calls.bodies >= 1
    /\ writer.proc = "None"

====
